---- MODULE Spec2Model ----
(***************************************************************************)
(* joku: a command line client for the Roku External Control Protocol.    *)
(*                                                                         *)
(* The module models the library (src/src/lib.rs, src/src/roku.rs) and    *)
(* the binary (src/src/main.rs): the encoding of a RokuCommand into a     *)
(* path (Display::fmt), the transport (send_cmd) and the discovery of     *)
(* devices (get_roku_addr, get_roku_devices).                              *)
(*                                                                         *)
(* Text the code works on character by character (app names, search       *)
(* values, the friendly name of a device) is a sequence of one-character  *)
(* strings; Cat turns it into a string.  An Option<T> is a sequence of    *)
(* length at most one: <<>> is None and <<v>> is Some(v).                  *)
(***************************************************************************)
EXTENDS Integers, Sequences, FiniteSets, TLC

VARIABLES
    entry,      \* the entry point this run calls
    command,    \* the RokuCommand given to it
    method,     \* the reqwest::Method given to it
    base,       \* the address of the device commands are sent to
    config,     \* the content of the configuration file
    pc,         \* the position of the program
    wire,       \* the HTTP requests issued so far
    reply,      \* the HTTP response received by send_cmd, if any
    result,     \* what the entry point returned
    responder,  \* how the device at each address answers a DeviceInfo probe
    urls,       \* get_roku_devices: the locations get_roku_addr returned
    probe,      \* get_roku_devices: the state of the probe of each location
    devices     \* get_roku_devices: the devices collected so far

vars == << entry, command, method, base, config, pc, wire, reply, result,
           responder, urls, probe, devices >>

-----------------------------------------------------------------------------
(* Bounds of the model. *)

\* The longest list of locations the multicast search returns.
MaxResponders == 6

\* The largest number of apps in the configuration file.
MaxApps == 2

-----------------------------------------------------------------------------
(* Text. *)

None == << >>
Some(v) == << v >>

\* String::from_iter / collect::<String>(): the characters, joined.
RECURSIVE Cat(_)
Cat(s) ==
    IF s = << >> THEN ""
    ELSE IF Len(s) = 1 THEN s[1]
    ELSE LET h == Len(s) \div 2
         IN  Cat(SubSeq(s, 1, h)) \o Cat(SubSeq(s, h + 1, Len(s)))

\* char::to_lowercase, on the letters the model uses.
LowerChar(c) ==
    CASE c = "Y" -> "y"
      [] c = "T" -> "t"
      [] c = "N" -> "n"
      [] c = "O" -> "o"
      [] c = "U" -> "u"
      [] c = "B" -> "b"
      [] c = "E" -> "e"
      [] OTHER -> c

\* str::to_lowercase
to_lowercase(s) == [i \in 1..Len(s) |-> LowerChar(s[i])]

\* Whether pat occurs in s at position i.
MatchAt(s, pat, i) ==
    /\ i + Len(pat) - 1 <= Len(s)
    /\ SubSeq(s, i, i + Len(pat) - 1) = pat

\* str::replace: every non-overlapping match of pat, from the left.
RECURSIVE Replace(_, _, _)
Replace(s, pat, rep) ==
    LET at == { i \in 1..Len(s) : MatchAt(s, pat, i) }
    IN  IF at = { } THEN s
        ELSE LET i == CHOOSE k \in at : \A j \in at : k <= j
             IN  SubSeq(s, 1, i - 1) \o rep
                   \o Replace(SubSeq(s, i + Len(pat), Len(s)), pat, rep)

\* Iterator::filter over the characters of s: those in drop are left out.
FilterOut(s, drop) == SelectSeq(s, LAMBDA c : c \notin drop)

\* The strings of seq, joined by sep.
RECURSIVE Join(_, _)
Join(seq, sep) ==
    IF seq = << >> THEN << >>
    ELSE IF Len(seq) = 1 THEN Head(seq)
    ELSE Head(seq) \o sep \o Join(Tail(seq), sep)

-----------------------------------------------------------------------------
(* serde_qs::to_string *)

\* The percent-encoding serde_qs applies to one character of a key or a
\* value: alphanumerics and * - . _ stay, a space becomes +, anything else
\* becomes %XX.
QsChar(c) ==
    CASE c = " " -> << "+" >>
      [] c = "&" -> << "%", "2", "6" >>
      [] c = "=" -> << "%", "3", "D" >>
      [] c = "?" -> << "%", "3", "F" >>
      [] OTHER -> << c >>

RECURSIVE QsEncode(_)
QsEncode(s) == IF s = << >> THEN << >> ELSE QsChar(Head(s)) \o QsEncode(Tail(s))

\* A bool is written true or false.
BoolText(b) == IF b THEN << "t", "r", "u", "e" >> ELSE << "f", "a", "l", "s", "e" >>

\* The key=value pairs of a list of <<key, Option<value>>> fields: a field
\* that is None is skipped, the others are joined by &.
RECURSIVE QsPairs(_)
QsPairs(fields) ==
    IF fields = << >> THEN << >>
    ELSE LET f == Head(fields)
         IN  IF f[2] = None
             THEN QsPairs(Tail(fields))
             ELSE << f[1] \o << "=" >> \o QsEncode(f[2][1]) >> \o QsPairs(Tail(fields))

QsString(fields) == Join(QsPairs(fields), << "&" >>)

-----------------------------------------------------------------------------
(* RokuCommand, SearchParams, LaunchParams, App. *)

\* The variants of RokuCommand that press a key of the remote.
KeyVariants ==
    { "Home", "Play", "Pause", "Select", "Left", "Right", "Down", "Up", "Back",
      "VolumeUp", "VolumeDown", "Mute", "PowerOff" }

\* The variants of RokuCommand that carry no parameters.
UnitVariants == KeyVariants \cup { "Discover", "DeviceInfo", "ListApps" }

\* The names of apps the model uses.
YouTube == << "Y", "o", "u", "T", "u", "b", "e" >>
youtube == << "y", "o", "u", "t", "u", "b", "e" >>
Netflix == << "N", "e", "t", "f", "l", "i", "x" >>

App(id, name) == [id |-> id, type |-> "appl", version |-> "1.0", name |-> name]


-----------------------------------------------------------------------------
(* LaunchParams::path and what it calls. *)

Ok(v) == [ok |-> TRUE, val |-> v]
Err(e) == [ok |-> FALSE, err |-> e]

\* Iterator::find with the closure of LaunchParams::path: the first app of
\* the catalog whose lowercased name is the lowercased name asked for.
RECURSIVE find(_, _)
find(apps, name) ==
    IF apps = << >> THEN None
    ELSE IF to_lowercase(Head(apps).name) = to_lowercase(name)
         THEN Some(Head(apps))
         ELSE find(Tail(apps), name)

\* TryFrom<App> for RokuApp: only YouTube is a RokuApp.
try_from(value) ==
    IF to_lowercase(value.name) = youtube
    THEN Ok([variant |-> "YouTube", app_id |-> value.id])
    ELSE Err("Unsupported app")

\* Url::parse: a link is given with the Url it parses to, if it parses.
Url_parse(link) == link.url

\* query_pairs().collect::<HashMap>().get(key): of the pairs with this
\* key the last one inserted stays in the map.
query_get(pairs, key) ==
    LET at == { i \in 1..Len(pairs) : pairs[i][1] = key }
    IN  IF at = { } THEN None
        ELSE Some(pairs[CHOOSE i \in at : \A j \in at : j <= i][2])

\* launch_path that launches the app without content when the link yields
\* no identifier.
launch_path_lenient(app, link) ==
    IF link = None THEN Some(app.app_id)
    ELSE LET url == Url_parse(link[1])
         IN  IF url = None THEN Some(app.app_id)
             ELSE LET id == query_get(url[1], "v")
                  IN  IF id = None THEN Some(app.app_id)
                      ELSE Some(app.app_id \o "?contentId=" \o id[1])

\* The match on the RokuApp in LaunchParams::path.
launch_path(app, link) ==
    IF link = None THEN Some(app.app_id)
    ELSE LET url == Url_parse(link[1])
         IN  IF url = None THEN None
             ELSE LET id == query_get(url[1], "v")
                  IN  IF id = None THEN None
                      ELSE Some(app.app_id \o "?contentId=" \o id[1])

\* LaunchParams::path.  cfg is what reading the configuration file as Apps
\* gives: the apps, or an error.
path(params, cfg) ==
    IF ~cfg.ok THEN cfg
    ELSE LET found == find(cfg.val, params.app)
         IN  IF found = None THEN Err("Unknown roku app")
             ELSE LET app == try_from(found[1])
                  IN  IF ~app.ok THEN app
                      ELSE LET p == launch_path(app.val, params.link)
                           IN  IF p = None
                               THEN Err("Invalid content identifier")
                               ELSE Ok(p[1])

-----------------------------------------------------------------------------
(* impl Display for RokuCommand (roku.rs) *)

Panic(e) == [ok |-> FALSE, panic |-> e]

key_cmd == "keypress"

\* The fields of SearchParams in the order serde serializes them, under
\* the names rename_all = "snake_case" gives them.
SearchFields(p) ==
    << << << "k", "e", "y", "w", "o", "r", "d" >>, Some(p.keyword) >>,
       << << "t", "y", "p", "e" >>, p.type >>,
       << << "t", "i", "t", "l", "e" >>, p.title >>,
       << << "s", "e", "a", "s", "o", "n" >>, p.season >>,
       << << "l", "a", "u", "n", "c", "h" >>,
          IF p.launch = None THEN None ELSE Some(BoolText(p.launch[1])) >>,
       << << "p", "r", "o", "v", "i", "d", "e", "r" >>, p.provider >>,
       << << "p", "r", "o", "v", "i", "d", "e", "r", "_", "i", "d" >>, p.provider_id >> >>

\* fmt with the paths of VolumeUp and VolumeDown exchanged.
fmt_swapped(cmd, cfg) ==
    CASE cmd.tag = "Pause" -> Ok(key_cmd \o "/Pause")
      [] cmd.tag = "Home" -> Ok(key_cmd \o "/Home")
      [] cmd.tag = "Play" -> Ok(key_cmd \o "/Play")
      [] cmd.tag = "Select" -> Ok(key_cmd \o "/Select")
      [] cmd.tag = "Left" -> Ok(key_cmd \o "/Left")
      [] cmd.tag = "Right" -> Ok(key_cmd \o "/Right")
      [] cmd.tag = "Down" -> Ok(key_cmd \o "/Down")
      [] cmd.tag = "Up" -> Ok(key_cmd \o "/Up")
      [] cmd.tag = "Back" -> Ok(key_cmd \o "/Back")
      [] cmd.tag = "VolumeUp" -> Ok(key_cmd \o "/VolumeDown")
      [] cmd.tag = "VolumeDown" -> Ok(key_cmd \o "/VolumeUp")
      [] cmd.tag = "Mute" -> Ok(key_cmd \o "/Mute")
      [] cmd.tag = "PowerOff" -> Ok(key_cmd \o "/PowerOff")
      [] cmd.tag = "Search" ->
            Ok("search/browse" \o "?" \o Cat(QsString(SearchFields(cmd.params))))
      [] cmd.tag = "DeviceInfo" -> Ok("query/device-info")
      [] cmd.tag = "Launch" ->
            LET p == path(cmd.params, cfg)
            IN  IF p.ok THEN Ok("launch/" \o p.val) ELSE Panic(p.err)
      [] cmd.tag = "Discover" -> Ok("")
      [] cmd.tag = "ListApps" -> Ok("query/apps")

\* Display::fmt for RokuCommand, and so RokuCommand::to_string.  The
\* catalog is the configuration file LaunchParams::path reads.
fmt(cmd, cfg) ==
    CASE cmd.tag = "Pause" -> Ok(key_cmd \o "/Pause")
      [] cmd.tag = "Home" -> Ok(key_cmd \o "/Home")
      [] cmd.tag = "Play" -> Ok(key_cmd \o "/Play")
      [] cmd.tag = "Select" -> Ok(key_cmd \o "/Select")
      [] cmd.tag = "Left" -> Ok(key_cmd \o "/Left")
      [] cmd.tag = "Right" -> Ok(key_cmd \o "/Right")
      [] cmd.tag = "Down" -> Ok(key_cmd \o "/Down")
      [] cmd.tag = "Up" -> Ok(key_cmd \o "/Up")
      [] cmd.tag = "Back" -> Ok(key_cmd \o "/Back")
      [] cmd.tag = "VolumeUp" -> Ok(key_cmd \o "/VolumeUp")
      [] cmd.tag = "VolumeDown" -> Ok(key_cmd \o "/VolumeDown")
      [] cmd.tag = "Mute" -> Ok(key_cmd \o "/Mute")
      [] cmd.tag = "PowerOff" -> Ok(key_cmd \o "/PowerOff")
      [] cmd.tag = "Search" ->
            Ok("search/browse" \o "?" \o Cat(QsString(SearchFields(cmd.params))))
      [] cmd.tag = "DeviceInfo" -> Ok("query/device-info")
      [] cmd.tag = "Launch" ->
            LET p == path(cmd.params, cfg)
            IN  IF p.ok THEN Ok("launch/" \o p.val) ELSE Panic(p.err)
      [] cmd.tag = "Discover" -> Ok("")
      [] cmd.tag = "ListApps" -> Ok("query/apps")

\* Url::join of a base http://host:port/ and a relative path.
Url_join(b, rel) == b \o rel

\* urlify (lib.rs)
urlify(b, cmd, cfg) ==
    LET s == fmt(cmd, cfg)
    IN  IF s.ok THEN Ok(Url_join(b, s.val)) ELSE s

-----------------------------------------------------------------------------
(* impl Display for RokuCommand (main.rs) *)

HTML_RESERVED_CHARS == { "?", "[", "]", "@", "#", ":", "<", ">", "&", "\"", "-", "_" }

SearchTag == << "S", "e", "a", "r", "c", "h" >>

\* The key serde_qs writes for a field of the struct variant Search.
VariantKey(field) == SearchTag \o << "[" >> \o field \o << "]" >>

\* The fields of the variant Search of main.rs, in order.
main_SearchFields(p) ==
    << << VariantKey(<< "k", "e", "y", "w", "o", "r", "d" >>), Some(p.keyword) >>,
       << VariantKey(<< "t", "y", "p", "e" >>), p.type >>,
       << VariantKey(<< "t", "i", "t", "l", "e" >>), p.title >>,
       << VariantKey(<< "s", "e", "a", "s", "o", "n" >>), p.season >>,
       << VariantKey(<< "l", "a", "u", "n", "c", "h" >>),
          IF p.launch = None THEN None ELSE Some(BoolText(p.launch[1])) >> >>

\* Display::fmt for the RokuCommand of main.rs.
main_fmt(cmd) ==
    CASE cmd.tag = "Pause" -> Ok(key_cmd \o "/Pause")
      [] cmd.tag = "Home" -> Ok(key_cmd \o "/Home")
      [] cmd.tag = "Play" -> Ok(key_cmd \o "/Play")
      [] cmd.tag = "Select" -> Ok(key_cmd \o "/Select")
      [] cmd.tag = "Left" -> Ok(key_cmd \o "/Left")
      [] cmd.tag = "Right" -> Ok(key_cmd \o "/Right")
      [] cmd.tag = "Down" -> Ok(key_cmd \o "/Down")
      [] cmd.tag = "Up" -> Ok(key_cmd \o "/Up")
      [] cmd.tag = "Back" -> Ok(key_cmd \o "/Back")
      [] cmd.tag = "VolumeUp" -> Ok(key_cmd \o "/VolumeUp")
      [] cmd.tag = "VolumeDown" -> Ok(key_cmd \o "/VolumeDown")
      [] cmd.tag = "Mute" -> Ok(key_cmd \o "/Mute")
      [] cmd.tag = "PowerOff" -> Ok(key_cmd \o "/PowerOff")
      [] cmd.tag = "Search" ->
            LET qs == Replace(FilterOut(QsString(main_SearchFields(cmd.params)),
                                        HTML_RESERVED_CHARS),
                              SearchTag, << >>)
            IN  Ok("search/browser" \o "?" \o Cat(qs))
      [] cmd.tag = "DeviceInfo" -> Ok("query/device-info")
      [] cmd.tag = "Discover" -> Ok("")

\* urlify (main.rs)
main_urlify(b, cmd) == Ok(Url_join(b, main_fmt(cmd).val))

-----------------------------------------------------------------------------
(* The devices on the network. *)

\* The socket addresses of the devices.
Addr == { "192.168.1.10:8060", "192.168.1.11:8060" }

\* The Url of a socket address: Url::parse of http://<addr>.
Location(a) == "http://" \o a \o "/"

\* How a device answers the DeviceInfo probe of get_roku_devices:
\*   named      a body with a friendly-device-name element
\*   notag      a well-formed body without that element
\*   non2xx     an error status with a body without that element
\*   malformed  a body the XML reader reports an error on
\*   body_err   a response whose body cannot be read
\*   refused    no response: the request fails
\*   silent     the connection is accepted and nothing is ever sent
Behaviours == { "named", "notag", "non2xx", "malformed", "body_err", "refused", "silent" }

\* The text of the friendly-device-name element of the device at a.
FriendlyName(a) ==
    IF a = "192.168.1.10:8060"
    THEN << "T", "V" >>
    ELSE << "D", "e", "n", "&", "q", "u", "o", "t", ";", "T", "V" >>

\* The lists of locations the multicast search can return.
UrlSeqs == UNION { [1..n -> Addr] : n \in 0..MaxResponders }

\* What awaiting the request of send_cmd gives: the error of reqwest when
\* no response comes, or the response, a status and a body.
Statuses == { 200, 204, 404, 500 }
Replies(bodies) == { Err("reqwest") } \cup { Ok(r) : r \in [status : Statuses, body : bodies] }

\* StatusCode::is_success
is_success(status) == 200 <= status /\ status <= 299

-----------------------------------------------------------------------------
(* The inputs. *)

Methods == { "GET", "POST" }

KeywordSamples == { << >>, << "t", "v" >>, << "a", " ", "b" >> }
TextSamples == { None, Some(<< "x", "&", "y" >>) }
BoolSamples == { None, Some(TRUE) }

\* The Search commands of roku.rs.
SearchCommands ==
    { [tag |-> "Search", params |-> p] :
        p \in [keyword : KeywordSamples, type : TextSamples, title : TextSamples,
               season : TextSamples, launch : BoolSamples, provider : TextSamples,
               provider_id : TextSamples] }

\* The Search commands of main.rs.
main_SearchCommands ==
    { [tag |-> "Search", params |-> p] :
        p \in [keyword : KeywordSamples \cup { << "-", "S", "e", "a", "r", "c", "h" >> },
               type : TextSamples, title : TextSamples,
               season : TextSamples, launch : BoolSamples] }

LinkSamples ==
    { None,
      Some([text |-> "https://youtu.be/watch?v=XYZ", url |-> Some(<< << "v", "XYZ" >> >>)]),
      Some([text |-> "https://youtu.be/watch?t=10", url |-> Some(<< << "t", "10" >> >>)]),
      Some([text |-> "https://youtu.be/watch?v=A&t=10&v=B",
            url |-> Some(<< << "v", "A" >>, << "t", "10" >>, << "v", "B" >> >>)]),
      Some([text |-> "https://youtu.be/XYZ", url |-> Some(<< >>)]),
      Some([text |-> "not a link", url |-> None]) }

AppNames == { YouTube, youtube, Netflix, << "H", "u", "l", "u" >> }

LaunchCommands ==
    { [tag |-> "Launch", params |-> p] : p \in [app : AppNames, link : LinkSamples] }

UnitCommands(tags) == { [tag |-> t] : t \in tags }

\* The catalogs of the configuration file.
AppSamples == { App(id, name) : id \in { "837", "12" }, name \in { YouTube, youtube, Netflix } }
Catalogs == { Err("config") } \cup { Ok(c) : c \in UNION { [1..n -> AppSamples] : n \in 0..MaxApps } }
NoApps == Ok(<< >>)

DeviceSamples == { [name |-> "TV", addr |-> a] : a \in Addr }

NoResult == [ok |-> FALSE, pending |-> TRUE]
NoCommand == [tag |-> "-"]
NoMethod == "-"
NoBase == "-"
AllNamed == [a \in Addr |-> "named"]

\* The state every run starts from, but for its inputs.
Blank ==
    /\ pc = "start"
    /\ wire = << >>
    /\ reply = None
    /\ result = NoResult
    /\ urls = << >>
    /\ probe = << >>
    /\ devices = << >>

\* joku discover
InitMainDiscover ==
    /\ entry = "main"
    /\ command = [tag |-> "Discover"]
    /\ method = NoMethod
    /\ base = NoBase
    /\ config = [device |-> None, apps |-> NoApps]
    /\ responder \in [Addr -> Behaviours]

\* joku <any other command>
InitMainSend ==
    /\ entry = "main"
    /\ command \in UnitCommands(KeyVariants \cup { "DeviceInfo" }) \cup main_SearchCommands
    /\ method = NoMethod
    /\ base = NoBase
    /\ config \in [device : { None } \cup { Some(d) : d \in DeviceSamples }, apps : { NoApps }]
    /\ responder = AllNamed

\* RokuClient::new(base).send(command, method)
InitSend ==
    /\ entry = "send"
    /\ \/ /\ command \in UnitCommands(UnitVariants) \cup SearchCommands
          /\ config = [device |-> None, apps |-> NoApps]
       \/ /\ command \in LaunchCommands
          /\ config \in [device : { None }, apps : Catalogs]
    /\ method \in Methods
    /\ base \in { Location(a) : a \in Addr }
    /\ responder = AllNamed

\* get_roku_apps(base)
InitGetRokuApps ==
    /\ entry = "get_roku_apps"
    /\ command = NoCommand
    /\ method = NoMethod
    /\ base \in { Location(a) : a \in Addr }
    /\ config = [device |-> None, apps |-> NoApps]
    /\ responder = AllNamed

\* get_roku_devices()
InitGetRokuDevices ==
    /\ entry = "get_roku_devices"
    /\ command = NoCommand
    /\ method = NoMethod
    /\ base = NoBase
    /\ config = [device |-> None, apps |-> NoApps]
    /\ responder \in [Addr -> Behaviours]

Init ==
    /\ Blank
    /\ \/ InitMainDiscover
       \/ InitMainSend
       \/ InitSend
       \/ InitGetRokuApps
       \/ InitGetRokuDevices

-----------------------------------------------------------------------------
(* send_cmd *)

Request(cmd, m, url) == [command |-> cmd.tag, method |-> m, url |-> url]

\* send_cmd up to the point where the request is sent: a command whose
\* encoding panics ends the run, any other is sent to the Url urlify gives.
SendCmd(cmd, url, m) ==
    IF url.ok
    THEN /\ wire' = Append(wire, Request(cmd, m, url.val))
         /\ pc' = "sending"
         /\ result' = result
    ELSE /\ wire' = wire
         /\ pc' = "done"
         /\ result' = url

\* What send_cmd returns when awaiting the request gave r: the error is
\* passed on by ?, and the response is returned whatever its status.
send_cmd_result(r) ==
    IF ~r.ok THEN r
    ELSE IF ~is_success(r.val.status) THEN Ok(r.val)
    ELSE Ok(r.val)

\* What get_roku_apps makes of what send_cmd returned: the apps of a body
\* that parses, an error otherwise.
apps_result(r) ==
    IF ~r.ok THEN r
    ELSE IF r.val.body = "apps" THEN Ok(<< App("837", YouTube), App("12", Netflix) >>)
    ELSE Err("serde_xml_rs")

\* What main returns after RokuClient::send: the error, or Ok(()).
main_result(r) == IF ~r.ok THEN r ELSE Ok("()")

-----------------------------------------------------------------------------
(* The entry points that send one command. *)

\* main (main.rs), any command but Discover: the client is made from the
\* configuration file and the command is sent with POST.
MainSend ==
    /\ entry = "main"
    /\ pc = "start"
    /\ command # [tag |-> "Discover"]
    /\ IF config.device = None
       THEN /\ result' = Err("config")
            /\ pc' = "done"
            /\ UNCHANGED << base, method, wire >>
       ELSE LET b == Location(config.device[1].addr)
            IN  /\ base' = b
                /\ method' = "POST"
                /\ SendCmd(command, main_urlify(b, command), "POST")
    /\ UNCHANGED << entry, command, config, reply, responder, urls, probe, devices >>

\* RokuClient::send
ClientSend ==
    /\ entry = "send"
    /\ pc = "start"
    /\ SendCmd(command, urlify(base, command, config.apps), method)
    /\ UNCHANGED << entry, command, method, base, config, reply, responder,
                    urls, probe, devices >>

\* get_roku_apps: ListApps is sent with GET.
GetRokuApps ==
    /\ entry = "get_roku_apps"
    /\ pc = "start"
    /\ command' = [tag |-> "ListApps"]
    /\ method' = "GET"
    /\ SendCmd([tag |-> "ListApps"], urlify(base, [tag |-> "ListApps"], config.apps), "GET")
    /\ UNCHANGED << entry, base, config, reply, responder, urls, probe, devices >>

\* The answer of the device arrives and the entry point returns.
Receive ==
    /\ pc = "sending"
    /\ \E r \in Replies(IF entry = "get_roku_apps" THEN { "apps", "garbage" } ELSE { "" }) :
          /\ reply' = Some(r)
          /\ result' = CASE entry = "main" -> main_result(send_cmd_result(r))
                         [] entry = "send" -> send_cmd_result(r)
                         [] entry = "get_roku_apps" -> apps_result(send_cmd_result(r))
    /\ pc' = "done"
    /\ UNCHANGED << entry, command, method, base, config, wire, responder,
                    urls, probe, devices >>

-----------------------------------------------------------------------------
(* get_roku_addr and get_roku_devices *)

\* The argument of buffer_unordered.
ProbeConcurrency == 5

InFlight(p) == { i \in DOMAIN p : p[i] = "inflight" }
Queued(p) == { i \in DOMAIN p : p[i] = "queued" }

\* The n lowest members of a set of numbers.
Lowest(S, n) == { i \in S : Cardinality({ j \in S : j < i }) < n }

\* The members of a set of numbers, ascending.
Ascending(S) ==
    [k \in 1..Cardinality(S) |->
        CHOOSE i \in S : Cardinality({ j \in S : j < i }) = k - 1]

\* A stream that takes every future of the iterator at once.
buffer_all(p) == Queued(p)

\* BufferUnordered::poll_next, its first loop: futures are taken from the
\* iterator, in order, while fewer than ProbeConcurrency are in progress.
buffer_unordered(p) == Lowest(Queued(p), ProbeConcurrency - Cardinality(InFlight(p)))

\* The Url of the probe of a location: urlify of the entry point's file.
ProbeUrl(a) ==
    IF entry = "main"
    THEN main_urlify(Location(a), [tag |-> "DeviceInfo"]).val
    ELSE urlify(Location(a), [tag |-> "DeviceInfo"], config.apps).val

\* The name pushed for a device: roku.rs replaces &quot;, main.rs does not.
device_name(a) ==
    IF entry = "main"
    THEN Cat(FriendlyName(a))
    ELSE Cat(Replace(FriendlyName(a), << "&", "q", "u", "o", "t", ";" >>, << "\"" >>))

\* Where a run is when get_roku_devices has returned r: main goes on to
\* the prompt when r is Ok, and returns r when it is an error.
Returned(r) == IF entry = "main" /\ r.ok THEN "select" ELSE "done"

\* main (main.rs), Discover.
MainDiscover ==
    /\ entry = "main"
    /\ pc = "start"
    /\ command = [tag |-> "Discover"]
    /\ pc' = "search"
    /\ UNCHANGED << entry, command, method, base, config, wire, reply, result,
                    responder, urls, probe, devices >>

\* get_roku_devices is called.
GetRokuDevices ==
    /\ entry = "get_roku_devices"
    /\ pc = "start"
    /\ pc' = "search"
    /\ UNCHANGED << entry, command, method, base, config, wire, reply, result,
                    responder, urls, probe, devices >>

\* get_roku_addr: the multicast search fails, or one of its responses is
\* an error or has a location that is no Url, and get_roku_devices returns
\* the error; or it returns the locations of the responses.
GetRokuAddr ==
    /\ pc = "search"
    /\ \/ /\ result' = Err("ssdp")
          /\ pc' = "done"
          /\ UNCHANGED << urls, probe >>
       \/ \E u \in UrlSeqs :
             /\ urls' = u
             /\ probe' = [i \in 1..Len(u) |-> "queued"]
             /\ pc' = "next"
             /\ result' = result
    /\ UNCHANGED << entry, command, method, base, config, wire, reply,
                    responder, devices >>

\* stream.next() is polled: the stream takes futures from the iterator
\* and polls them, which sends their requests.
StreamNext ==
    /\ pc = "next"
    /\ LET start == buffer_unordered(probe)
           order == Ascending(start)
       IN  /\ probe' = [i \in DOMAIN probe |-> IF i \in start THEN "inflight" ELSE probe[i]]
           /\ wire' = wire \o [k \in 1..Len(order) |->
                                 Request([tag |-> "DeviceInfo"], "GET", ProbeUrl(urls[order[k]]))]
    /\ pc' = "await"
    /\ UNCHANGED << entry, command, method, base, config, reply, result,
                    responder, urls, devices >>

\* The body of the loop of get_roku_devices for the probe i, which is the
\* next to complete.
StreamYield(i) ==
    /\ pc = "await"
    /\ probe[i] = "inflight"
    /\ LET a == urls[i]
           b == responder[a]
           dropped == [j \in DOMAIN probe |->
                         IF probe[j] = "inflight" /\ j # i THEN "dropped"
                         ELSE IF j = i THEN "done" ELSE probe[j]]
       IN  /\ b # "silent"
           /\ CASE b = "refused" ->
                     \* Some(Err(_)) does not match the pattern of while let
                     /\ result' = Ok(devices)
                     /\ pc' = Returned(result')
                     /\ probe' = dropped
                     /\ devices' = devices
                [] b = "body_err" ->
                     \* info.text().await?
                     /\ result' = Err("reqwest")
                     /\ pc' = "done"
                     /\ probe' = dropped
                     /\ devices' = devices
                [] b = "malformed" ->
                     \* Err(e) => panic!
                     /\ result' = Panic("Error at position")
                     /\ pc' = "done"
                     /\ probe' = dropped
                     /\ devices' = devices
                [] b = "named" ->
                     /\ devices' = Append(devices, [name |-> device_name(a), addr |-> a])
                     /\ probe' = [probe EXCEPT ![i] = "done"]
                     /\ pc' = "next"
                     /\ result' = result
                [] b \in { "notag", "non2xx" } ->
                     \* Ok(Event::Eof) => break
                     /\ devices' = devices
                     /\ probe' = [probe EXCEPT ![i] = "done"]
                     /\ pc' = "next"
                     /\ result' = result
    /\ UNCHANGED << entry, command, method, base, config, wire, reply,
                    responder, urls >>

\* The stream has ended: every future was taken and has completed.
StreamEnd ==
    /\ pc = "await"
    /\ InFlight(probe) = { }
    /\ result' = Ok(devices)
    /\ pc' = Returned(result')
    /\ UNCHANGED << entry, command, method, base, config, wire, reply,
                    responder, urls, probe, devices >>

\* main (main.rs) after get_roku_devices: the prompt fails (always when
\* there is nothing to select), or the device selected is written to the
\* configuration file.
MainSelect ==
    /\ entry = "main"
    /\ pc = "select"
    /\ \/ /\ result' = Err("inquire")
          /\ config' = config
       \/ \E k \in 1..Len(devices) :
             /\ config' = [config EXCEPT !.device = Some(devices[k])]
             /\ result' = Ok("()")
    /\ pc' = "done"
    /\ UNCHANGED << entry, command, method, base, wire, reply, responder,
                    urls, probe, devices >>

-----------------------------------------------------------------------------

\* The steps of a run that sends one command.
Sending ==
    \/ MainSend
    \/ ClientSend
    \/ GetRokuApps
    \/ Receive

\* The steps of a run that discovers the devices.
Discovery ==
    \/ MainDiscover
    \/ GetRokuDevices
    \/ GetRokuAddr
    \/ StreamNext
    \/ \E i \in DOMAIN probe : StreamYield(i)
    \/ StreamEnd
    \/ MainSelect

Next == Sending \/ Discovery

Spec == Init /\ [][Next]_vars

-----------------------------------------------------------------------------
(* What the claims speak of. *)

\* A run of get_roku_devices that got the locations and has returned.
DiscoveryReturned ==
    \/ entry = "get_roku_devices" /\ pc = "done" /\ result # Err("ssdp")
    \/ entry = "main" /\ pc = "select"

\* The encoding of the command of RokuClient::send was attempted.
Encoded == entry = "send" /\ pc # "start"

\* The encoding failed: the run ended there, and nothing was sent.
EncodeFailed == pc = "done" /\ wire = << >> /\ ~result.ok

\* The encoding gave this path: the one request sent is for it.
EncodedAs(p) == wire = << Request(command, method, base \o p) >>

\* The entries of the catalog that match the app of the Launch command.
Matches ==
    { i \in 1..Len(config.apps.val) :
        to_lowercase(config.apps.val[i].name) = to_lowercase(command.params.app) }

-----------------------------------------------------------------------------
(* C1: in get_roku_devices a probe that fails never aborts the other      *)
(* probes or the call: whatever the responders and the order in which the *)
(* probes complete, the call returns without an error, with a device for  *)
(* every location whose responder answers with a name and none for a      *)
(* location whose probe failed.                                           *)
C1_FailedProbeIsDropped ==
    DiscoveryReturned =>
        /\ result.ok
        /\ \A i \in DOMAIN urls :
              responder[urls[i]] = "named" <=>
                 \E k \in DOMAIN devices : devices[k].addr = urls[i]

(* C2: every fixed command is encoded as its literal path: a key variant  *)
(* as keypress/<its name>, DeviceInfo as query/device-info and ListApps   *)
(* as query/apps.                                                          *)
C2_FixedCommandPaths ==
    /\ (Encoded /\ command.tag \in KeyVariants) => EncodedAs("keypress/" \o command.tag)
    /\ (Encoded /\ command.tag = "DeviceInfo") => EncodedAs("query/device-info")
    /\ (Encoded /\ command.tag = "ListApps") => EncodedAs("query/apps")

C2_Witness ==
    /\ Encoded
    /\ command.tag = "VolumeDown"
    /\ wire # << >>

(* C3: encoding a Launch command needs exactly one entry of the catalog   *)
(* to match the app name without regard to case: it fails when no entry   *)
(* matches and it fails when two or more do.                               *)
C3_LaunchNeedsOneMatch ==
    (Encoded /\ command.tag = "Launch" /\ config.apps.ok /\ Cardinality(Matches) # 1)
        => EncodeFailed

(* C4: encoding a Search command whose keyword is empty fails, and no     *)
(* search/browse path with an empty keyword is produced.                   *)
C4_EmptyKeywordRejected ==
    (Encoded /\ command.tag = "Search" /\ command.params.keyword = << >>)
        => EncodeFailed

C6_DiscoverNeverSent ==
    /\ \A k \in DOMAIN wire : wire[k].command # "Discover"
    /\ (Encoded /\ command.tag = "Discover") => EncodeFailed

(* C7: a response whose status is not 2xx is reported to the caller as a  *)
(* failure: send and send_cmd never return success for it.                 *)
C7_Non2xxIsFailure ==
    (/\ pc = "done"
     /\ reply # None
     /\ reply[1].ok
     /\ ~is_success(reply[1].val.status))
    => ~result.ok

(* C8: in get_roku_devices the probes in flight are never more than the   *)
(* bound given to buffer_unordered, 5, whatever the number of locations   *)
(* and the order in which the probes complete.                             *)
C8_ProbesInFlightBounded == Cardinality(InFlight(probe)) <= 5

C8_Witness ==
    /\ Cardinality(InFlight(probe)) = 5
    /\ Queued(probe) # { }

(* C9: get_roku_devices always terminates: a probe that never answers is  *)
(* given up, so a run that has not returned can always take a step, also  *)
(* when a responder accepts the connection and never replies.              *)
C9_DiscoveryTerminates ==
    (entry = "get_roku_devices" \/ (entry = "main" /\ command.tag = "Discover"))
        => (pc = "done" \/ ENABLED Discovery)

(* C10: on the paths that bring a command to the transport without the    *)
(* caller naming a method (the command line, get_roku_apps, the probes of *)
(* get_roku_devices) a key press, Search or Launch is sent with POST and  *)
(* DeviceInfo or ListApps with GET.                                        *)
C10_MethodByKind ==
    entry \in { "main", "get_roku_apps", "get_roku_devices" } =>
        \A k \in DOMAIN wire :
            /\ wire[k].command \in KeyVariants \cup { "Search", "Launch" }
                  => wire[k].method = "POST"
            /\ wire[k].command \in { "DeviceInfo", "ListApps" }
                  => wire[k].method = "GET"

(* C11: discovery probes each distinct address once and returns at most   *)
(* one device per address: also when the multicast search gives the same  *)
(* location more than once, no two DeviceInfo probes of a run go to the   *)
(* same address and no two devices collected have the same address.       *)
C11_OneProbePerAddress ==
    (entry = "get_roku_devices" \/ (entry = "main" /\ command.tag = "Discover")) =>
        /\ \A j, k \in DOMAIN wire :
              (j # k /\ wire[j].command = "DeviceInfo" /\ wire[k].command = "DeviceInfo")
                 => wire[j].url # wire[k].url
        /\ \A j, k \in DOMAIN devices :
              j # k => devices[j].addr # devices[k].addr

====
